---- MODULE Spec2Model ----
(***************************************************************************)
(* State-machine model of the gbm_mesa minigbm backend                     *)
(* (gbm_mesa_driver/gbm_mesa_internals.cpp): lazy construction and caching *)
(* of the driver session, reference-counted teardown, and the buffer       *)
(* object entry points create / import / destroy / get_plane_fd / map /    *)
(* unmap, together with the process descriptor table they act on.          *)
(***************************************************************************)
EXTENDS Integers, Sequences, FiniteSets, TLC

VARIABLES
    fdtab,      \* the process descriptor table: fd number -> inode, 0 = closed
    drv_priv,   \* drv->priv: the cached session of the driver context, or NULL
    sessions,   \* every GbmMesaDriver object that was constructed whole, in order
    bos,        \* the buffer records (struct bo and its GbmMesaBoPriv)
    vmas,       \* the mapping record (struct vma) the host keeps per buffer
    gbm_bos,    \* the live backend mapping handles (struct gbm_bo)
    caller_fds, \* descriptors the caller (host framework) owns
    nAllocs,    \* dma-bufs the backend has allocated so far
    proc,       \* "running" | "SIGSEGV" | "SIGABRT"
    last,       \* the entry point that ran last, what it returned and called
    thr         \* the threads inside gbm_mesa_get_or_init_driver, where each is

vars ==
    <<fdtab, drv_priv, sessions, bos, vmas, gbm_bos, caller_fds, nAllocs, proc, last, thr>>

----------------------------------------------------------------------------
(* Bounds of the model *)

MaxSessions == 2
MaxAllocs == 2
MaxBos == 1
MaxCallerFds == 1

(* Program constants *)

DRV_MAX_PLANES == 4
EINVAL == 22
ENOMEM == 12

NULL == 0
NoFd == -1
NoFormat == "0"

SessionIds == 1..MaxSessions
BoIds == 1..MaxBos
Planes == 0..(DRV_MAX_PLANES - 1)

FirstFd == 3
FdMax == FirstFd + 2 * MaxSessions + 3 * MaxBos + MaxCallerFds + 3
FdNums == FirstFd..FdMax

Min(S) == CHOOSE x \in S : \A y \in S : x <= y

ALIGN(x, a) == ((x + a - 1) \div a) * a
DIV_ROUND_UP(n, d) == (n + d - 1) \div d

----------------------------------------------------------------------------
(* Kernel descriptor primitives and the UniqueFd owner *)

IsOpen(tab, fd) == fd \in FdNums /\ tab[fd] # 0

LowestFree(tab) == Min({f \in FdNums : tab[f] = 0})

\* open(2): the lowest free number now names the file
Open(tab, ino) == [tab EXCEPT ![LowestFree(tab)] = ino]

\* dup(2): -1 on a descriptor that is not open
DupFd(tab, fd) == IF IsOpen(tab, fd) THEN LowestFree(tab) ELSE NoFd

Dup(tab, fd) == IF IsOpen(tab, fd) THEN [tab EXCEPT ![LowestFree(tab)] = tab[fd]] ELSE tab

\* close(2): closing a number that is not open fails with EBADF and changes nothing
Close(tab, fd) == IF IsOpen(tab, fd) THEN [tab EXCEPT ![fd] = 0] ELSE tab

\* fstat(2).st_ino
Inode(tab, fd) == IF IsOpen(tab, fd) THEN tab[fd] ELSE 0

\* UniqueFd::~UniqueFd / the release of the old value on move assignment
UniqueFdReset(tab, fd) == IF fd >= 0 THEN Close(tab, fd) ELSE tab

----------------------------------------------------------------------------
(* Device discovery *)

separate_dc_gpu_list == {"v3d", "vc4", "etnaviv", "panfrost", "lima", "freedreno"}

Node(name, kms, openable, ino) ==
    [name |-> name, kms |-> kms, openable |-> openable, ino |-> ino]

\* The /dev/dri directories a construction attempt may find, render nodes and card
\* nodes in glob order: one GPU that is its own display controller, a GPU with a
\* separate display controller, the same without a KMS-capable card, and no node
PlainTopo ==
    [render |-> <<Node("i915", FALSE, TRUE, 1)>>,
     card   |-> <<Node("i915", TRUE, TRUE, 5)>>]

KmsroTopo ==
    [render |-> <<Node("v3d", FALSE, TRUE, 2)>>,
     card   |-> <<Node("v3d", FALSE, TRUE, 6), Node("vc4", TRUE, TRUE, 7)>>]

NoKmsTopo ==
    [render |-> <<Node("v3d", FALSE, TRUE, 2)>>,
     card   |-> <<Node("v3d", FALSE, TRUE, 6)>>]

NoTopo == [render |-> <<>>, card |-> <<>>]

\* The captured state of the two predicates handed to open_drm_dev
Search0(tab) ==
    [tab |-> tab, gpu_fd |-> NoFd, separate_dc |-> FALSE, gpu_name |-> "",
     gbm_node_fd |-> NoFd, keep |-> FALSE]

\* The predicate of is_separate_dc_gpu
gpu_found(st, fd, is_kms, drm_name) ==
    IF st.separate_dc
    THEN [st EXCEPT !.keep = FALSE]
    ELSE [st EXCEPT !.separate_dc = (drm_name \in separate_dc_gpu_list),
                    !.tab = UniqueFdReset(st.tab, st.gpu_fd),
                    !.gpu_fd = fd,
                    !.gpu_name = drm_name,
                    !.keep = TRUE]

\* The predicate of the companion KMS search
kms_found(st, fd, is_kms, drm_name) ==
    IF ~is_kms \/ st.gbm_node_fd >= 0
    THEN [st EXCEPT !.keep = FALSE]
    ELSE [st EXCEPT !.gbm_node_fd = fd, !.keep = TRUE]

found(card_node, st, fd, is_kms, drm_name) ==
    IF card_node THEN kms_found(st, fd, is_kms, drm_name)
    ELSE gpu_found(st, fd, is_kms, drm_name)

\* Lines 191-195: the descriptor is kept when the predicate says so, closed otherwise
after_found(r, fd) == IF r.keep THEN r ELSE [r EXCEPT !.tab = Close(r.tab, fd)]

\* Lines 179-191: one node of the glob result
visit_node(card_node, node, st) ==
    IF ~node.openable THEN st
    ELSE after_found(found(card_node, [st EXCEPT !.tab = Open(st.tab, node.ino)],
                           LowestFree(st.tab), node.kms, node.name),
                     LowestFree(st.tab))

RECURSIVE open_drm_dev_from(_, _, _, _)
open_drm_dev_from(card_node, nodes, i, st) ==
    IF i > Len(nodes) THEN st
    ELSE open_drm_dev_from(card_node, nodes, i + 1, visit_node(card_node, nodes[i], st))

\* glob() failing (no match) returns before any node is opened
open_drm_dev(card_node, nodes, st) ==
    IF Len(nodes) = 0 THEN st ELSE open_drm_dev_from(card_node, nodes, 1, st)

is_separate_dc_gpu(tab, topo) == open_drm_dev(FALSE, topo.render, Search0(tab))

----------------------------------------------------------------------------
(* The driver session: struct GbmMesaDriver *)

\* A default-constructed GbmMesaDriver
NewDriver ==
    [st |-> "building", wrapper |-> FALSE, gbm_dev |-> FALSE, dl_handle |-> FALSE,
     gbm_node_fd |-> NoFd, gpu_node_fd |-> NoFd, log |-> <<>>]

Unborn == [NewDriver EXCEPT !.st = "unborn"]

\* The destructor with its two steps swapped: the module is unloaded first
DtorLogUnloadsFirst(d) ==
    d.log \o (IF d.dl_handle THEN <<"dlclose">> ELSE <<>>)
          \o (IF d.gbm_dev THEN <<"dev_destroy">> ELSE <<>>)

\* GbmMesaDriver::~GbmMesaDriver: dev_destroy, then dlclose
DtorLog(d) ==
    d.log \o (IF d.gbm_dev THEN <<"dev_destroy">> ELSE <<>>)
          \o (IF d.dl_handle THEN <<"dlclose">> ELSE <<>>)

\* The destruction of a session whose gbm_node_fd were a plain int: it stays open
DriverDtorLeaks(tab, d, how) ==
    [tab |-> UniqueFdReset(tab, d.gpu_node_fd),
     obj |-> [NewDriver EXCEPT !.st = how, !.log = DtorLog(d)]]

\* The destructor, then the members' destructors in reverse order of declaration.
\* `how` is the state the object is left in.
DriverDtor(tab, d, how) ==
    [tab |-> UniqueFdReset(UniqueFdReset(tab, d.gpu_node_fd), d.gbm_node_fd),
     obj |-> [NewDriver EXCEPT !.st = how, !.log = DtorLog(d)]]

\* What the dynamic loader and the backend answer during one construction attempt:
\* the step that fails, or "none"
BackendFaults == {"none", "dlopen", "dlsym", "get_gbm_ops", "dev_create"}

\* Lines 250-264: the companion KMS search has run
KmsNodes(kms) ==
    [tab |-> kms.tab, gpu_node_fd |-> kms.gpu_fd, gbm_node_fd |-> kms.gbm_node_fd,
     drop_master |-> kms.gbm_node_fd >= 0, kms_missing |-> kms.gbm_node_fd < 0]

\* Lines 248-267, after is_separate_dc_gpu has answered
NodesAfterGpu(gpu, mapper_sphal, topo) ==
    IF gpu.separate_dc /\ ~mapper_sphal
    THEN KmsNodes(open_drm_dev(TRUE, topo.card, gpu))
    ELSE [tab |-> Dup(gpu.tab, gpu.gpu_fd), gpu_node_fd |-> gpu.gpu_fd,
          gbm_node_fd |-> DupFd(gpu.tab, gpu.gpu_fd),
          drop_master |-> FALSE, kms_missing |-> FALSE]

\* Lines 246-267: the descriptors of the session
InitNodes(tab, mapper_sphal, topo) ==
    NodesAfterGpu(is_separate_dc_gpu(tab, topo), mapper_sphal, topo)

\* The object after the steps of lines 274-299 that ran, for the step that failed
Loaded(d, fault) ==
    IF fault = "dlopen" THEN d
    ELSE IF fault \in {"dlsym", "get_gbm_ops"}
    THEN [d EXCEPT !.dl_handle = TRUE, !.log = <<"dlopen">>]
    ELSE IF fault = "dev_create"
    THEN [d EXCEPT !.dl_handle = TRUE, !.wrapper = TRUE,
                   !.log = <<"dlopen", "dev_create">>]
    ELSE [d EXCEPT !.dl_handle = TRUE, !.wrapper = TRUE, !.gbm_dev = TRUE,
                   !.log = <<"dlopen", "dev_create">>, !.st = "live"]

\* Lines 269-299 on the descriptors n
BuildWith(n, fault) ==
    [tab |-> n.tab, kms_missing |-> n.kms_missing,
     stage |-> IF n.gbm_node_fd < 0 THEN "no_node" ELSE fault,
     obj |-> IF n.gbm_node_fd < 0
             THEN [NewDriver EXCEPT !.gpu_node_fd = n.gpu_node_fd]
             ELSE Loaded([NewDriver EXCEPT !.gpu_node_fd = n.gpu_node_fd,
                                           !.gbm_node_fd = n.gbm_node_fd], fault)]

\* Lines 244-303: the object as the construction attempt leaves it just before it
\* returns; st = "live" when every step succeeded, "building" when one failed.
BuildDriver(tab, mapper_sphal, topo, fault) ==
    BuildWith(InitNodes(tab, mapper_sphal, topo), fault)

\* The slot of the model the next constructed session takes
NextSession(ss) == Min({s \in SessionIds : ss[s].st = "unborn"})

\* Lines 301-303 left out: the session is returned but not stored
InitNotStored(st, s, b) ==
    [st |-> [st EXCEPT !.fdtab = b.tab, !.sessions[s] = b.obj],
     drv |-> s, how |-> "built", log |-> b.obj.log, kms_missing |-> b.kms_missing]

\* Lines 301-303: the session b.obj is stored against the driver context as s
InitStored(st, s, b) ==
    [st |-> [st EXCEPT !.fdtab = b.tab, !.sessions[s] = b.obj, !.drv_priv = s],
     drv |-> s, how |-> "built", log |-> b.obj.log, kms_missing |-> b.kms_missing]

\* A return of nullptr: the local shared_ptr drops the object, x, and nothing is stored
InitDropped(st, b, x) ==
    [st |-> [st EXCEPT !.fdtab = x.tab],
     drv |-> NULL, how |-> b.stage, log |-> x.obj.log, kms_missing |-> b.kms_missing]

InitBuilt(st, b) ==
    IF b.obj.st = "live" THEN InitStored(st, NextSession(st.sessions), b)
    ELSE InitDropped(st, b, DriverDtor(b.tab, b.obj, "failed"))

\* Lines 304-306: the cached session
InitCached(st) ==
    [st |-> st, drv |-> st.drv_priv, how |-> "cached", log |-> <<>>,
     kms_missing |-> FALSE]

\* gbm_mesa_get_or_init_driver in program state st: the state it leaves, the session
\* it returns (NULL for nullptr), how it got it, and the life of the object it made
\* and dropped when construction failed.
gbm_mesa_get_or_init_driver(st, mapper_sphal, topo, fault) ==
    IF st.drv_priv = NULL
    THEN InitBuilt(st, BuildDriver(st.fdtab, mapper_sphal, topo, fault))
    ELSE InitCached(st)

----------------------------------------------------------------------------
(* Formats, usage flags and the layout helper of the host framework *)

\* The formats the loaded backend can allocate: wrapper->get_gbm_format(f) != 0
GbmFormats == {"XBGR8888", "R8", "NV12"}

get_gbm_format(format) == format \in GbmFormats

drv_num_planes_from_format(format) == IF format \in {"NV12", "NV21"} THEN 2 ELSE 1

\* bytes per pixel of plane 0
drv_bytes_per_pixel(format) ==
    IF format = "XBGR8888" THEN 4 ELSE IF format = "BGR888" THEN 3 ELSE 1

\* drv_size_from_format: the bytes of one plane (4:2:0 chroma has half the rows)
drv_size_from_format(format, stride, height, plane) ==
    stride * (IF plane = 0 THEN height ELSE DIV_ROUND_UP(height, 2))

RECURSIVE SumSizes(_, _, _, _)
SumSizes(format, stride, height, n) ==
    IF n = 0 THEN 0
    ELSE SumSizes(format, stride, height, n - 1)
         + drv_size_from_format(format, stride, height, n - 1)

\* drv_bo_from_format(bo, stride, 1, aligned_height, format): plane count and total size
drv_bo_from_format(bo, stride, aligned_height, format) ==
    [bo EXCEPT !.num_planes = drv_num_planes_from_format(format),
               !.total_size = SumSizes(format, stride, aligned_height,
                                       drv_num_planes_from_format(format))]

BO_USE_SW_MASK == {"SW_READ_OFTEN", "SW_WRITE_OFTEN"}
BO_USE_CAMERA == {"CAMERA_READ", "CAMERA_WRITE"}



----------------------------------------------------------------------------
(* Buffer records: struct bo with its GbmMesaBoPriv *)

\* A zeroed record: bo->priv is nullptr
EmptyBo ==
    [priv |-> FALSE, drv |-> NULL, map_stride |-> 0,
     fds |-> [p \in Planes |-> NoFd], gbm_bo |-> NULL,
     format |-> NoFormat, width |-> 0, height |-> 0, num_planes |-> 0,
     total_size |-> 0, format_modifier |-> "NONE",
     handles |-> [p \in Planes |-> 0]]

\* The record the host hands to bo_create and bo_import: drv_bo_new
drv_bo_new(width, height, format) ==
    [EmptyBo EXCEPT !.format = format, !.width = width, !.height = height,
                    !.num_planes = drv_num_planes_from_format(format)]

EmptyVma == [priv |-> FALSE, length |-> 0]

\* Lines 334-345 storing the descriptor number in place of st_ino
InodeToHandleFdNumbers(tab, bo) ==
    [bo EXCEPT !.handles = [p \in Planes |->
        IF p < bo.num_planes THEN bo.fds[p] ELSE bo.handles[p]]]

\* gbm_mesa_inode_to_handle
gbm_mesa_inode_to_handle(tab, bo) ==
    [bo EXCEPT !.handles = [p \in Planes |->
        IF p < bo.num_planes THEN Inode(tab, bo.fds[p]) ELSE bo.handles[p]]]

\* shared_ptr use count of session s in program state st
UseCount(st, s) ==
    (IF st.drv_priv = s THEN 1 ELSE 0)
    + Cardinality({b \in DOMAIN st.bos : st.bos[b].priv /\ st.bos[b].drv = s})

\* The session after its destructor ran in state st
Destroyed(st, s, x) == [st EXCEPT !.fdtab = x.tab, !.sessions[s] = x.obj]

\* A reference to session s was dropped: the destructor runs when it was the last
ReleaseSession(st, s) ==
    IF s # NULL /\ UseCount(st, s) = 0
    THEN Destroyed(st, s, DriverDtor(st.fdtab, st.sessions[s], "destroyed"))
    ELSE st

----------------------------------------------------------------------------
(* The backend capability table (struct gbm_ops) as the driver sees it *)

HandleIds == 1..MaxBos

\* wrapper->alloc succeeding: a new dma-buf with a fresh inode behind a new descriptor
BackendAlloc(tab, args, n) ==
    LET stride == ALIGN(args.width * drv_bytes_per_pixel(args.drm_format), 64)
    IN [tab |-> Open(tab, 100 + n),
        out_fd |-> LowestFree(tab),
        out_stride |-> stride,
        out_map_stride |-> IF args.needs_map_stride THEN stride ELSE 0,
        out_modifier |-> IF args.force_linear THEN "LINEAR" ELSE "VENDOR"]

\* wrapper->import succeeding: a handle no live buffer uses
NewHandle(live) == Min(HandleIds \ live)


Call(fn, arg) == [fn |-> fn, arg |-> arg]

\* What the entry point that ran last did: its name and buffer, whether it returned
\* and what, how it got its session (init), the life of the session object it
\* dropped when construction failed (log) and whether the KMS search found nothing
\* (kms_missing), the backend calls it made, the failed close() calls, the record
\* as a failed bo_create left it (rec), and the arguments it was called with (req).
NoRequest == [width |-> 0, height |-> 0, format |-> NoFormat, use_flags |-> {}]

Result(op, b, returned, ret) ==
    [op |-> op, bo |-> b, returned |-> returned, ret |-> ret, init |-> "none",
     log |-> <<>>, kms_missing |-> FALSE, calls |-> <<>>, ebadf |-> 0,
     rec |-> EmptyBo, req |-> NoRequest, fds |-> <<>>,
     out |-> [format |-> NoFormat, use_flags |-> {}]]

FromInit(res, r) ==
    [res EXCEPT !.init = r.how, !.log = r.log, !.kms_missing = r.kms_missing]

\* The entry point returns to the host in program state st
Returns(st, res) == [st EXCEPT !.last = res]

\* The program state before any entry point ran
\* The threads that may use the driver context
Threads == {1, 2}

\* No thread is inside gbm_mesa_get_or_init_driver. serialized: the host lets one
\* thread at a time into the entry points of a driver context. pc is where each
\* thread is, mine the session its local shared_ptr holds, stores the sessions
\* stored in drv->priv so far, in order.
Thr0 ==
    [serialized |-> TRUE, pc |-> [t \in Threads |-> "idle"],
     mine |-> [t \in Threads |-> NULL], sphal |-> [t \in Threads |-> FALSE],
     stores |-> <<>>]

State0 ==
    [fdtab |-> [f \in FdNums |-> 0], drv_priv |-> NULL,
     sessions |-> [s \in SessionIds |-> Unborn],
     bos |-> [b \in BoIds |-> EmptyBo], vmas |-> [b \in BoIds |-> EmptyVma],
     gbm_bos |-> {}, caller_fds |-> {}, nAllocs |-> 0, proc |-> "running",
     last |-> Result("none", 0, TRUE, 0), thr |-> Thr0]

\* The process dies of a signal: no destructor runs, the kernel closes every
\* descriptor and nothing of the process is left but how it ended.
Killed(sig, res) == [State0 EXCEPT !.proc = sig, !.last = res]

----------------------------------------------------------------------------
(* gbm_mesa_driver_close *)

\* driver_close holding the session by a plain pointer: it deletes the session
DriverCloseDestroys(st) ==
    IF st.drv_priv # NULL
    THEN Destroyed([st EXCEPT !.drv_priv = NULL], st.drv_priv,
                   DriverDtor(st.fdtab, st.sessions[st.drv_priv], "destroyed"))
    ELSE st

\* Lines 313-316: delete the GbmMesaDriverPriv, which drops its reference
DriverClose(st) ==
    IF st.drv_priv # NULL
    THEN ReleaseSession([st EXCEPT !.drv_priv = NULL], st.drv_priv)
    ELSE st

gbm_mesa_driver_close(st) == Returns(DriverClose(st), Result("driver_close", 0, TRUE, 0))

----------------------------------------------------------------------------
(* gbm_mesa_bo_create *)

\* Lines 365-407: the allocation request and the layout computed before it
PlanAlloc(bo, width, height, format, use_flags) ==
    LET camera == use_flags \cap BO_USE_CAMERA # {}
        a0 == [width |-> width, height |-> height,
               drm_format |-> IF get_gbm_format(format) THEN format ELSE NoFormat,
               force_linear |-> use_flags \cap BO_USE_SW_MASK # {},
               needs_map_stride |-> use_flags \cap BO_USE_SW_MASK # {},
               use_scanout |-> "SCANOUT" \in use_flags]
        a1 == IF camera
              THEN [a0 EXCEPT !.use_scanout = TRUE, !.width = ALIGN(a0.width, 32)]
              ELSE a0
        size_align == IF camera THEN 4096 ELSE 1
        spoof == a1.drm_format = NoFormat
        bo1x == drv_bo_from_format(bo, a1.width, a1.height, format)
        bo1 == IF spoof
               THEN [bo1x EXCEPT !.total_size = ALIGN(bo1x.total_size, size_align)]
               ELSE bo
        a2 == IF spoof
              THEN [a1 EXCEPT !.drm_format = "R8", !.width = bo1.total_size,
                              !.height = 1, !.force_linear = TRUE]
              ELSE a1
        a3 == IF a2.drm_format = "R8" /\ a2.height = 1
              THEN [a2 EXCEPT !.needs_map_stride = FALSE,
                              !.height = DIV_ROUND_UP(a2.width, 4096),
                              !.width = 4096]
              ELSE a2
    IN [args |-> a3, bo |-> bo1, scanout_strong |-> camera, bo_layout_ready |-> spoof]

\* A call of wrapper->alloc and the error it answered
AllocCall(args, err) == [fn |-> "alloc", arg |-> args, ret |-> err]

\* Lines 409-420 with the test of scanout_strong left out of line 411
AllocAttemptsAlwaysRetry(plan, ok1, ok2) ==
    LET first == plan.args
        second == [plan.args EXCEPT !.use_scanout = FALSE]
    IN IF ok1 THEN [err |-> 0, args |-> first, calls |-> <<AllocCall(first, 0)>>]
       ELSE [err |-> IF ok2 THEN 0 ELSE -ENOMEM, args |-> second,
             calls |-> <<AllocCall(first, -ENOMEM),
                         AllocCall(second, IF ok2 THEN 0 ELSE -ENOMEM)>>]

\* Lines 409-420: the allocation attempts made, given which of them the backend fails
AllocAttempts(plan, ok1, ok2) ==
    LET first == plan.args
        second == [plan.args EXCEPT !.use_scanout = FALSE]
    IN IF ok1 THEN [err |-> 0, args |-> first, calls |-> <<AllocCall(first, 0)>>]
       ELSE IF ~plan.scanout_strong
       THEN [err |-> IF ok2 THEN 0 ELSE -ENOMEM, args |-> second,
             calls |-> <<AllocCall(first, -ENOMEM),
                         AllocCall(second, IF ok2 THEN 0 ELSE -ENOMEM)>>]
       ELSE [err |-> -ENOMEM, args |-> first, calls |-> <<AllocCall(first, -ENOMEM)>>]

\* Lines 428-432: the descriptor each plane slot of the new private state holds
CreatePlaneFds(tab, out_fd, num_planes) ==
    [tab |-> tab,
     fds |-> [p \in Planes |-> IF p < num_planes THEN out_fd ELSE NoFd]]

\* Lines 422-423 without the test of bo_layout_ready
CreateLayoutAlways(bo, plan, att, out, format) ==
    drv_bo_from_format(bo, out.out_stride, att.args.height, format)

\* Lines 422-423: the layout from the allocation, unless the spoofing path made it
CreateLayout(bo, plan, att, out, format) ==
    IF ~plan.bo_layout_ready
    THEN drv_bo_from_format(bo, out.out_stride, att.args.height, format)
    ELSE bo

\* Lines 428-440: the private state and the plane keys
CreatePriv(bo, pf, out, drv) ==
    [tab |-> pf.tab,
     bo |-> gbm_mesa_inode_to_handle(pf.tab,
                [bo EXCEPT !.priv = TRUE, !.fds = pf.fds,
                           !.map_stride = out.out_map_stride,
                           !.format_modifier = out.out_modifier,
                           !.drv = drv])]

CreatePlanes(bo, out, drv) ==
    CreatePriv(bo, CreatePlaneFds(out.tab, out.out_fd, bo.num_planes), out, drv)

\* Lines 422-442: the record after a successful allocation
FinishCreate(bo, plan, att, out, drv, format) ==
    CreatePlanes(CreateLayout(bo, plan, att, out, format), out, drv)

\* Line 442: return 0
CreateDone(r, b, calls, fin) ==
    Returns([r.st EXCEPT !.fdtab = fin.tab, !.bos[b] = fin.bo, !.nAllocs = @ + 1],
            [FromInit(Result("bo_create", b, TRUE, 0), r) EXCEPT !.calls = calls])

\* The arguments of the call, kept with what it did
CreateCalled(st, width, height, format, use_flags) ==
    [st EXCEPT !.last.req = [width |-> width, height |-> height, format |-> format,
                             use_flags |-> use_flags]]

\* Lines 417-442
CreateAllocated(r, b, format, plan, att) ==
    IF att.err # 0
    THEN Returns(r.st, [FromInit(Result("bo_create", b, TRUE, att.err), r)
                           EXCEPT !.calls = <<Call("get_gbm_format", format)>> \o att.calls,
                                  !.rec = plan.bo])
    ELSE CreateDone(r, b, <<Call("get_gbm_format", format)>> \o att.calls,
                    FinishCreate(plan.bo, plan, att,
                                 BackendAlloc(r.st.fdtab, att.args, r.st.nAllocs + 1),
                                 r.drv, format))

\* Lines 409-442
CreateAlloc(r, b, format, ok1, ok2, plan) ==
    CreateAllocated(r, b, format, plan, AllocAttempts(plan, ok1, ok2))

\* Lines 358-442, the session obtained or not
CreateWith(r, b, bo, width, height, format, use_flags, ok1, ok2) ==
    IF r.drv = NULL
    THEN Returns(r.st, [FromInit(Result("bo_create", b, TRUE, -EINVAL), r)
                           EXCEPT !.rec = bo])
    ELSE CreateAlloc(r, b, format, ok1, ok2,
                     PlanAlloc(bo, width, height, format, use_flags))

\* The handler on a record the host has just made (drv_bo_new) for slot b; the host
\* frees the record when the handler fails, so the slot stays empty then. ok1 and
\* ok2 say whether the backend's first and second allocation attempt succeed.
gbm_mesa_bo_create(st, b, width, height, format, use_flags, topo, fault, ok1, ok2) ==
    CreateCalled(CreateWith(gbm_mesa_get_or_init_driver(st, FALSE, topo, fault), b,
                            drv_bo_new(width, height, format), width, height, format,
                            use_flags, ok1, ok2),
                 width, height, format, use_flags)

----------------------------------------------------------------------------
(* gbm_mesa_bo_import *)

\* The buffers a caller may ask to import: the metadata of struct drv_import_fd_data
ImportShapes ==
    { [format |-> "NV12", width |-> 100, height |-> 2],
      [format |-> "BGR888", width |-> 100, height |-> 1] }

\* The record the host hands to bo_import for this data, its total size as exported
ImportRecord(shape) ==
    drv_bo_from_format(drv_bo_new(shape.width, shape.height, shape.format),
                       shape.width * drv_bytes_per_pixel(shape.format),
                       shape.height, shape.format)

\* Lines 452-454 without dup: the caller's descriptors themselves are stored
ImportPlaneFdsTaken(tab, fds, data_fds, plane, num_planes) ==
    [tab |-> tab,
     fds |-> [p \in Planes |-> IF p < num_planes THEN data_fds[p] ELSE fds[p]]]

\* Lines 452-454: priv->fds[plane] = UniqueFd(dup(data->fds[plane])), plane by plane
RECURSIVE ImportPlaneFds(_, _, _, _, _)
ImportPlaneFds(tab, fds, data_fds, plane, num_planes) ==
    IF plane >= num_planes THEN [tab |-> tab, fds |-> fds]
    ELSE ImportPlaneFds(Dup(tab, data_fds[plane]),
                        [fds EXCEPT ![plane] = DupFd(tab, data_fds[plane])],
                        data_fds, plane + 1, num_planes)

\* Lines 461-468: the shape handed to wrapper->import
ImportArgs(bo, shape, fd0) ==
    IF get_gbm_format(shape.format)
    THEN [fd |-> fd0, width |-> shape.width, height |-> shape.height,
          format |-> shape.format]
    ELSE [fd |-> fd0, width |-> bo.total_size, height |-> 1, format |-> "R8"]

\* Line 471: what the private state keeps of wrapper->import's answer
ImportedHandle(imp_ok, live) == IF imp_ok THEN NewHandle(live) ELSE NULL

\* Lines 447-450 left out
ImportNeverRejects(bo) == FALSE

\* Lines 447-450: the record is already populated
ImportRejects(bo) == bo.priv

\* Lines 475-479: the private state is attached and the plane keys derived
ImportAttach(st, b, bo, res) ==
    Returns([st EXCEPT !.bos[b] = gbm_mesa_inode_to_handle(st.fdtab, bo)], res)

\* Lines 470-479
ImportMapped(r, b, bo, args, h) ==
    ImportAttach([r.st EXCEPT !.gbm_bos = IF h # NULL THEN @ \cup {h} ELSE @], b,
                 [bo EXCEPT !.drv = r.drv, !.gbm_bo = h],
                 [FromInit(Result("bo_import", b, TRUE, 0), r)
                     EXCEPT !.calls = <<Call("get_gbm_format", args.asked),
                                        Call("import", args.shape)>>])

\* Lines 458-473: drv->wrapper is read through the session whatever it is
ImportSw(r, b, bo, shape, fd0, imp_ok) ==
    IF r.drv = NULL
    THEN Killed("SIGSEGV", FromInit(Result("bo_import", b, FALSE, 0), r))
    ELSE ImportMapped(r, b, bo,
                      [asked |-> shape.format, shape |-> ImportArgs(bo, shape, fd0)],
                      ImportedHandle(imp_ok, r.st.gbm_bos))

\* Lines 456-479, the plane descriptors duplicated
ImportDuped(st, b, bo, shape, data_fds, use_flags, topo, fault, imp_ok) ==
    IF use_flags \cap BO_USE_SW_MASK # {}
    THEN ImportSw(gbm_mesa_get_or_init_driver(st, TRUE, topo, fault), b, bo, shape,
                  data_fds[0], imp_ok)
    ELSE ImportAttach(st, b, bo, Result("bo_import", b, TRUE, 0))

\* Lines 451-479
ImportFresh(st, b, bo, pf, shape, data_fds, use_flags, topo, fault, imp_ok) ==
    ImportDuped([st EXCEPT !.fdtab = pf.tab], b, [bo EXCEPT !.priv = TRUE, !.fds = pf.fds],
                shape, data_fds, use_flags, topo, fault, imp_ok)

ImportNew(st, b, bo, shape, data_fds, use_flags, topo, fault, imp_ok) ==
    ImportFresh(st, b, bo, ImportPlaneFds(st.fdtab, bo.fds, data_fds, 0, bo.num_planes),
                shape, data_fds, use_flags, topo, fault, imp_ok)

\* data->fds of the call, plane 0 first, kept with what the call did
ImportCalled(st, data_fds) ==
    [st EXCEPT !.last.fds = [i \in 1..Cardinality(DOMAIN data_fds) |-> data_fds[i - 1]]]

\* The handler on the record of slot b: the populated record, or on an empty slot
\* the record the host has just made for this data. imp_ok says whether the
\* backend's import succeeds.
gbm_mesa_bo_import(st, b, shape, data_fds, use_flags, topo, fault, imp_ok) ==
    ImportCalled(IF ImportRejects(st.bos[b])
                 THEN Returns(st, Result("bo_import", b, TRUE, -EINVAL))
                 ELSE ImportNew(st, b, ImportRecord(shape), shape, data_fds, use_flags,
                                topo, fault, imp_ok),
                 data_fds)

----------------------------------------------------------------------------
(* gbm_mesa_bo_destroy *)

\* The UniqueFd array's destructors, last element first; ebadf counts the close()
\* calls made on a number that was not open
RECURSIVE DestroyPlaneFds(_, _, _, _)
DestroyPlaneFds(tab, fds, plane, ebadf) ==
    IF plane < 0 THEN [tab |-> tab, ebadf |-> ebadf]
    ELSE IF fds[plane] < 0 THEN DestroyPlaneFds(tab, fds, plane - 1, ebadf)
    ELSE DestroyPlaneFds(Close(tab, fds[plane]), fds, plane - 1,
                         IF IsOpen(tab, fds[plane]) THEN ebadf ELSE ebadf + 1)

\* Lines 322-325: the mapping handle is freed through the session's capability table
BoPrivFree(st, bo) ==
    IF bo.gbm_bo # NULL
    THEN [st |-> [st EXCEPT !.gbm_bos = @ \ {bo.gbm_bo}],
          calls |-> <<Call("free", [gbm_bo |-> bo.gbm_bo,
                                    through |-> st.sessions[bo.drv].st])>>]
    ELSE [st |-> st, calls |-> <<>>]

\* The members' destructors: the plane descriptors, then the session reference.
\* The host then frees the record and its mapping record.
BoPrivMembers(f, b, bo, cl) ==
    Returns(ReleaseSession([f.st EXCEPT !.fdtab = cl.tab, !.bos[b] = EmptyBo,
                                        !.vmas[b] = EmptyVma], bo.drv),
            [Result("bo_destroy", b, TRUE, 0) EXCEPT !.calls = f.calls,
                                                     !.ebadf = cl.ebadf])

\* GbmMesaBoPriv::~GbmMesaBoPriv and its members' destructors
BoPrivDtor(st, b, bo) ==
    BoPrivMembers(BoPrivFree(st, bo), b, bo,
                  DestroyPlaneFds(st.fdtab, bo.fds, DRV_MAX_PLANES - 1, 0))

gbm_mesa_bo_destroy(st, b) ==
    IF st.bos[b].priv THEN BoPrivDtor(st, b, st.bos[b])
    ELSE Returns(st, Result("bo_destroy", b, TRUE, 0))

----------------------------------------------------------------------------
(* gbm_mesa_bo_get_plane_fd, and the caller's own descriptors *)

\* The caller owns what dup returned
PlaneFdReturned(st, b, fd) ==
    Returns([st EXCEPT !.caller_fds = IF fd >= 0 THEN @ \cup {fd} ELSE @],
            Result("bo_get_plane_fd", b, TRUE, fd))

gbm_mesa_bo_get_plane_fd(st, b, plane) ==
    PlaneFdReturned([st EXCEPT !.fdtab = Dup(st.fdtab, st.bos[b].fds[plane])], b,
                    DupFd(st.fdtab, st.bos[b].fds[plane]))

\* The caller receives a descriptor of a dma-buf another process allocated
CallerReceive(st) ==
    Returns([st EXCEPT !.fdtab = Open(st.fdtab, 200),
                       !.caller_fds = @ \cup {LowestFree(st.fdtab)}],
            Result("receive", 0, TRUE, LowestFree(st.fdtab)))

\* The caller closes a descriptor it owns
CallerClose(st, fd) ==
    Returns([st EXCEPT !.fdtab = Close(st.fdtab, fd), !.caller_fds = @ \ {fd}],
            [Result("close", 0, TRUE, IF IsOpen(st.fdtab, fd) THEN 0 ELSE -1)
                EXCEPT !.ebadf = IF IsOpen(st.fdtab, fd) THEN 0 ELSE 1])

----------------------------------------------------------------------------
(* gbm_mesa_bo_map, gbm_mesa_bo_unmap, gbm_mesa_bo_get_map_stride *)

\* Lines 508-514: the shape handed to wrapper->map
MapArgs(bo) ==
    IF get_gbm_format(bo.format)
    THEN [gbm_bo |-> bo.gbm_bo, width |-> bo.width, height |-> bo.height]
    ELSE [gbm_bo |-> bo.gbm_bo, width |-> bo.total_size, height |-> 1]

\* How the process can end when an entry point reads drv->wrapper through a null
\* session: the load faults, unless the build moved it past an assertion that fails
NullSessionOutcomes(assert_fails) ==
    IF assert_fails THEN {"SIGSEGV", "SIGABRT"} ELSE {"SIGSEGV"}

\* Line 504 left out
MapAssertsNothing(bo) == TRUE

\* Line 504: assert(priv->gbm_bo != nullptr)
MapAsserts(bo) == bo.gbm_bo # NULL

\* Lines 501, 516-518: the length is recorded, the backend maps and fills vma->priv;
\* the address is returned, MAP_FAILED when the backend left it untouched
MapCall(r, b, bo, map_ok) ==
    Returns([r.st EXCEPT !.vmas[b] = [priv |-> IF map_ok THEN TRUE ELSE @.priv,
                                      length |-> bo.total_size]],
            [FromInit(Result("bo_map", b, TRUE, IF map_ok THEN 1 ELSE -1), r)
                EXCEPT !.calls = <<Call("get_gbm_format", bo.format),
                                   Call("map", MapArgs(bo))>>])

\* Lines 499-518, the session obtained or not; ub is how the process ends when the
\* session is null
MapWith(r, b, bo, map_ok, ub) ==
    IF r.drv = NULL THEN Killed(ub, FromInit(Result("bo_map", b, FALSE, 0), r))
    ELSE IF ~MapAsserts(bo)
    THEN Killed("SIGABRT", FromInit(Result("bo_map", b, FALSE, 0), r))
    ELSE MapCall(r, b, bo, map_ok)

gbm_mesa_bo_map(st, b, topo, fault, map_ok, ub) ==
    MapWith(gbm_mesa_get_or_init_driver(st, TRUE, topo, fault), b, st.bos[b], map_ok, ub)

\* Lines 527-528: assert(priv->gbm_bo != nullptr); assert(vma->priv != nullptr)
UnmapAsserts(bo, vma) == bo.gbm_bo # NULL /\ vma.priv

\* Lines 529-531 without line 530
UnmapKeepsContext(r, b, bo) ==
    Returns(r.st, [FromInit(Result("bo_unmap", b, TRUE, 0), r)
                      EXCEPT !.calls = <<Call("unmap", bo.gbm_bo)>>])

\* Lines 529-531
UnmapCall(r, b, bo) ==
    Returns([r.st EXCEPT !.vmas[b].priv = FALSE],
            [FromInit(Result("bo_unmap", b, TRUE, 0), r)
                EXCEPT !.calls = <<Call("unmap", bo.gbm_bo)>>])

\* Lines 524-531, the session obtained or not
UnmapWith(r, b, bo, vma, ub) ==
    IF r.drv = NULL THEN Killed(ub, FromInit(Result("bo_unmap", b, FALSE, 0), r))
    ELSE IF ~UnmapAsserts(bo, vma)
    THEN Killed("SIGABRT", FromInit(Result("bo_unmap", b, FALSE, 0), r))
    ELSE UnmapCall(r, b, bo)

gbm_mesa_bo_unmap(st, b, topo, fault, ub) ==
    UnmapWith(gbm_mesa_get_or_init_driver(st, TRUE, topo, fault), b, st.bos[b],
              st.vmas[b], ub)

gbm_mesa_bo_get_map_stride(st, b) ==
    Returns(st, Result("bo_get_map_stride", b, TRUE, st.bos[b].map_stride))

----------------------------------------------------------------------------
(* The state machine *)

\* The program state as one record
State ==
    [fdtab |-> fdtab, drv_priv |-> drv_priv, sessions |-> sessions, bos |-> bos,
     vmas |-> vmas, gbm_bos |-> gbm_bos, caller_fds |-> caller_fds,
     nAllocs |-> nAllocs, proc |-> proc, last |-> last, thr |-> thr]

\* The step to program state st
Becomes(st) ==
    /\ fdtab' = st.fdtab
    /\ drv_priv' = st.drv_priv
    /\ sessions' = st.sessions
    /\ bos' = st.bos
    /\ vmas' = st.vmas
    /\ gbm_bos' = st.gbm_bos
    /\ caller_fds' = st.caller_fds
    /\ nAllocs' = st.nAllocs
    /\ proc' = st.proc
    /\ last' = st.last
    /\ thr' = st.thr

Init ==
    /\ fdtab = State0.fdtab
    /\ drv_priv = State0.drv_priv
    /\ sessions = State0.sessions
    /\ bos = State0.bos
    /\ vmas = State0.vmas
    /\ gbm_bos = State0.gbm_bos
    /\ caller_fds = State0.caller_fds
    /\ nAllocs = State0.nAllocs
    /\ proc = State0.proc
    /\ last = State0.last
    /\ thr = State0.thr

Env(topo, fault) == [topo |-> topo, fault |-> fault]

\* The machine on which everything works
GoodEnv == Env(PlainTopo, "none")

\* The environments in which a construction attempt fails: at each step of the
\* backend's loading, with one node and with two, and for want of a node
BadEnvs ==
    {Env(PlainTopo, f) : f \in BackendFaults \ {"none"}}
    \cup {Env(KmsroTopo, "dev_create"), Env(NoKmsTopo, "none"), Env(NoTopo, "none")}

\* The environment is consulted only when a session has to be constructed
BadEnvsNow == IF drv_priv = NULL THEN BadEnvs ELSE {}

\* A slot of the model is left for the session a construction attempt may make
SessionRoom == drv_priv # NULL \/ \E s \in SessionIds : sessions[s].st = "unborn"

\* The creation requests: one plane and two planes, a directly allocated format and
\* a spoofed one, with and without camera usage, and the backend's answers to the
\* allocation attempts
Request(width, height, format, use_flags, ok1, ok2) ==
    [width |-> width, height |-> height, format |-> format, use_flags |-> use_flags,
     ok1 |-> ok1, ok2 |-> ok2]

FirstRequest == Request(100, 2, "XBGR8888", {"SCANOUT"}, TRUE, TRUE)

CreateRequests ==
    { FirstRequest,
      Request(100, 2, "XBGR8888", {"SCANOUT"}, FALSE, TRUE),
      Request(100, 2, "XBGR8888", {"SCANOUT"}, FALSE, FALSE),
      Request(100, 2, "NV12", {"CAMERA_WRITE"}, TRUE, TRUE),
      Request(100, 2, "NV12", {"CAMERA_WRITE"}, FALSE, FALSE),
      Request(5000, 2, "BGR888", {"SCANOUT", "SW_WRITE_OFTEN"}, TRUE, TRUE) }

\* Every request where everything works, one request in each failing environment
CreateCases ==
    {[q |-> q, e |-> GoodEnv] : q \in CreateRequests}
    \cup {[q |-> FirstRequest, e |-> e] : e \in BadEnvsNow}

BoCreate ==
    \E b \in BoIds, c \in CreateCases :
        /\ proc = "running"
        /\ ~bos[b].priv
        /\ nAllocs < MaxAllocs
        /\ SessionRoom
        /\ Becomes(gbm_mesa_bo_create(State, b, c.q.width, c.q.height, c.q.format,
                                      c.q.use_flags, c.e.topo, c.e.fault,
                                      c.q.ok1, c.q.ok2))

\* The import requests: without and with software access, the backend's import
\* working or not, and one request in each failing environment
ImportCase(shape, use_flags, e, imp_ok) ==
    [shape |-> shape, use_flags |-> use_flags, e |-> e, imp_ok |-> imp_ok]

ImportCases ==
    {ImportCase(s, {}, GoodEnv, TRUE) : s \in ImportShapes}
    \cup {ImportCase(s, {"SW_READ_OFTEN"}, GoodEnv, ok) : s \in ImportShapes, ok \in BOOLEAN}
    \cup {ImportCase(s, {"SW_READ_OFTEN"}, e, TRUE) :
            s \in {[format |-> "NV12", width |-> 100, height |-> 2]}, e \in BadEnvsNow}

\* The caller passes descriptors it owns
BoImport ==
    \E b \in BoIds, c \in ImportCases :
        \E data_fds \in [0..(drv_num_planes_from_format(c.shape.format) - 1) -> caller_fds] :
            /\ proc = "running"
            /\ c.use_flags = {} \/ SessionRoom
            /\ Becomes(gbm_mesa_bo_import(State, b, c.shape, data_fds, c.use_flags,
                                          c.e.topo, c.e.fault, c.imp_ok))

BoDestroy ==
    \E b \in BoIds :
        /\ proc = "running"
        /\ Becomes(gbm_mesa_bo_destroy(State, b))

\* The host asks for a plane the buffer has; the caller has room for the descriptor
BoGetPlaneFd ==
    \E b \in BoIds, plane \in Planes :
        /\ proc = "running"
        /\ bos[b].priv
        /\ plane < bos[b].num_planes
        /\ Cardinality(caller_fds) < MaxCallerFds
        /\ Becomes(gbm_mesa_bo_get_plane_fd(State, b, plane))

\* The backend's map working or not where a session is to be had; every way the
\* process can end in each failing environment
MapCase(e, map_ok, ub) == [e |-> e, map_ok |-> map_ok, ub |-> ub]

MapCases(assert_fails) ==
    {MapCase(GoodEnv, ok, "SIGSEGV") : ok \in BOOLEAN}
    \cup {MapCase(e, TRUE, ub) : e \in BadEnvsNow, ub \in NullSessionOutcomes(assert_fails)}

BoMap ==
    \E b \in BoIds :
        \E c \in MapCases(~MapAsserts(bos[b])) :
            /\ proc = "running"
            /\ bos[b].priv
            /\ SessionRoom
            /\ Becomes(gbm_mesa_bo_map(State, b, c.e.topo, c.e.fault, c.map_ok, c.ub))

UnmapCases(assert_fails) ==
    {MapCase(GoodEnv, TRUE, "SIGSEGV")}
    \cup {MapCase(e, TRUE, ub) : e \in BadEnvsNow, ub \in NullSessionOutcomes(assert_fails)}

BoUnmap ==
    \E b \in BoIds :
        \E c \in UnmapCases(~UnmapAsserts(bos[b], vmas[b])) :
            /\ proc = "running"
            /\ bos[b].priv
            /\ SessionRoom
            /\ Becomes(gbm_mesa_bo_unmap(State, b, c.e.topo, c.e.fault, c.ub))

BoGetMapStride ==
    \E b \in BoIds :
        /\ proc = "running"
        /\ bos[b].priv
        /\ Becomes(gbm_mesa_bo_get_map_stride(State, b))

DriverCloseStep ==
    /\ proc = "running"
    /\ Becomes(gbm_mesa_driver_close(State))

CallerReceiveStep ==
    /\ proc = "running"
    /\ Cardinality(caller_fds) < MaxCallerFds
    /\ Becomes(CallerReceive(State))

CallerCloseStep ==
    \E fd \in caller_fds :
        /\ proc = "running"
        /\ Becomes(CallerClose(State, fd))

Next ==
    \/ BoCreate
    \/ BoImport
    \/ BoDestroy
    \/ BoGetPlaneFd
    \/ BoMap
    \/ BoUnmap
    \/ BoGetMapStride
    \/ DriverCloseStep
    \/ CallerReceiveStep
    \/ CallerCloseStep

Spec == Init /\ [][Next]_vars

----------------------------------------------------------------------------
(* bo_create over its arguments: every width, height, format and usage of the sets
   below, the backend failing or not at each allocation attempt, in every
   environment *)

Formats == {"XBGR8888", "R8", "NV12", "BGR888", "NV21"}

Widths == {100, 5000}

Heights == {1, 2}

UseFlagSets ==
    { {}, {"SCANOUT"}, {"SW_READ_OFTEN"}, {"SCANOUT", "SW_WRITE_OFTEN"},
      {"CAMERA_WRITE"}, {"CAMERA_READ", "SW_READ_OFTEN"} }

CreateAny ==
    \E b \in BoIds, width \in Widths, height \in Heights, format \in Formats,
       use_flags \in UseFlagSets, ok1 \in BOOLEAN :
        \E ok2 \in (IF ok1 THEN {TRUE} ELSE BOOLEAN) :
            /\ proc = "running"
            /\ ~bos[b].priv
            /\ nAllocs < MaxAllocs
            /\ SessionRoom
            /\ Becomes(gbm_mesa_bo_create(State, b, width, height, format, use_flags,
                                          GoodEnv.topo, GoodEnv.fault, ok1, ok2))

\* bo_create of a format the backend lacks, where no session can be built
CreateNoSession ==
    \E b \in BoIds, e \in BadEnvsNow, use_flags \in UseFlagSets :
        /\ proc = "running"
        /\ ~bos[b].priv
        /\ nAllocs < MaxAllocs
        /\ SessionRoom
        /\ Becomes(gbm_mesa_bo_create(State, b, 100, 2, "BGR888", use_flags,
                                      e.topo, e.fault, TRUE, TRUE))

NextCreate ==
    \/ CreateAny
    \/ CreateNoSession
    \/ BoDestroy

SpecCreate == Init /\ [][NextCreate]_vars

----------------------------------------------------------------------------
(* Two threads in gbm_mesa_get_or_init_driver on one driver context. The reads and
   the write of drv->priv are the steps; the construction in between is one step.
   The host serializes the calls per context or does not; with the calls not
   serialized the accesses to drv->priv race, and the steps below are the outcomes
   in which each access reads or writes the whole pointer. *)

\* Line 243 left out: construct whatever drv->priv holds
RaceBuildsAlways(priv) == "build"

\* Line 243: if (!drv->priv)
RaceChecked(priv) == IF priv = NULL THEN "build" ELSE "cached"

\* Lines 244-299 done by thread t: the session constructed as s and held by the
\* local shared_ptr, or dropped where a step failed
RaceBuilt(st, t, s, b) ==
    IF b.obj.st = "live"
    THEN [st EXCEPT !.fdtab = b.tab, !.sessions[s] = b.obj,
                    !.thr.mine[t] = s, !.thr.pc[t] = "store"]
    ELSE [InitDropped(st, b, DriverDtor(b.tab, b.obj, "failed")).st
             EXCEPT !.thr.mine[t] = NULL, !.thr.pc[t] = "return"]

InitRace ==
    /\ fdtab = State0.fdtab
    /\ drv_priv = State0.drv_priv
    /\ sessions = State0.sessions
    /\ bos = State0.bos
    /\ vmas = State0.vmas
    /\ gbm_bos = State0.gbm_bos
    /\ caller_fds = State0.caller_fds
    /\ nAllocs = State0.nAllocs
    /\ proc = State0.proc
    /\ last = State0.last
    /\ thr \in {[Thr0 EXCEPT !.serialized = m] : m \in BOOLEAN}

\* A thread enters and tests drv->priv (line 243); with serialized calls only when
\* no other thread is inside
RaceEnter ==
    \E t \in Threads, mapper_sphal \in BOOLEAN :
        /\ thr.pc[t] = "idle"
        /\ thr.serialized => \A u \in Threads : thr.pc[u] = "idle"
        /\ Becomes([State EXCEPT !.thr.pc[t] = RaceChecked(drv_priv),
                                 !.thr.sphal[t] = mapper_sphal])

\* Line 305: the cached session is read
RaceRead ==
    \E t \in Threads :
        /\ thr.pc[t] = "cached"
        /\ Becomes([State EXCEPT !.thr.mine[t] = drv_priv, !.thr.pc[t] = "return"])

\* Lines 244-299
RaceBuild ==
    \E t \in Threads, e \in {GoodEnv, Env(KmsroTopo, "none"), Env(PlainTopo, "dlopen")} :
        /\ thr.pc[t] = "build"
        /\ \E s \in SessionIds : sessions[s].st = "unborn"
        /\ Becomes(RaceBuilt(State, t, NextSession(sessions),
                             BuildDriver(fdtab, thr.sphal[t], e.topo, e.fault)))

\* Lines 301-303: drv->priv = priv
RaceStore ==
    \E t \in Threads :
        /\ thr.pc[t] = "store"
        /\ Becomes([State EXCEPT !.drv_priv = thr.mine[t],
                                 !.thr.stores = Append(@, thr.mine[t]),
                                 !.thr.pc[t] = "return"])

\* Line 308: return gbm_mesa_drv
RaceReturn ==
    \E t \in Threads :
        /\ thr.pc[t] = "return"
        /\ Becomes([State EXCEPT !.thr.pc[t] = "idle", !.thr.mine[t] = NULL,
                                 !.last = Result("get_or_init_driver", 0, TRUE,
                                                 thr.mine[t])])

NextRace ==
    \/ RaceEnter
    \/ RaceRead
    \/ RaceBuild
    \/ RaceStore
    \/ RaceReturn

SpecRace == InitRace /\ [][NextRace]_vars

----------------------------------------------------------------------------
(* is_separate_dc_gpu over the render nodes glob may list, in every order *)

MaxNodes == 3

\* /dev/dri/renderD* nodes: three GPUs that are their own display controller (one
\* of them cannot be opened), three of separate_dc_gpu_list
RenderNodes ==
    { Node("i915", FALSE, TRUE, 1), Node("amdgpu", FALSE, TRUE, 4),
      Node("nouveau", FALSE, FALSE, 8), Node("v3d", FALSE, TRUE, 2),
      Node("panfrost", FALSE, TRUE, 3), Node("lima", FALSE, TRUE, 9) }

\* The glob results: up to MaxNodes different nodes in any order
RenderLists ==
    { l \in UNION {[1..n -> RenderNodes] : n \in 0..MaxNodes} :
        \A i, j \in DOMAIN l : i # j => l[i] # l[j] }

\* Lines 211-236 on this glob result: the verdict returned, *out_gpu_fd
Discovered(st, nodes, r) ==
    Returns([st EXCEPT !.fdtab = r.tab],
            [Result("is_separate_dc_gpu", 0, TRUE, IF r.separate_dc THEN 1 ELSE 0)
                EXCEPT !.calls = <<Call("glob", nodes)>>, !.fds = <<r.gpu_fd>>])

Discover ==
    \E nodes \in RenderLists :
        /\ last.op # "is_separate_dc_gpu"
        /\ Becomes(Discovered(State, nodes,
                              is_separate_dc_gpu(fdtab, [render |-> nodes, card |-> <<>>])))

\* The owner of *out_gpu_fd goes: line 138's UniqueFd closes the descriptor
DiscoverRelease ==
    /\ last.op = "is_separate_dc_gpu"
    /\ Becomes(Returns([State EXCEPT !.fdtab = UniqueFdReset(fdtab, last.fds[1])],
                       [Result("release", 0, TRUE, 0) EXCEPT !.calls = last.calls]))

NextDiscover ==
    \/ Discover
    \/ DiscoverRelease

SpecDiscover == Init /\ [][NextDiscover]_vars

----------------------------------------------------------------------------
(* gbm_mesa_resolve_format_and_use_flags *)

\* Lines 54-77 with the camera test of line 61 always false
ResolveIgnoresCamera(format, use_flags) ==
    [format |-> IF format = "FLEX_IMPLEMENTATION_DEFINED" THEN "XBGR8888"
                ELSE IF format = "FLEX_YCbCr_420_888" THEN "NV12"
                ELSE IF format = "BGR565" THEN "RGB565"
                ELSE format,
     use_flags |-> use_flags]

\* Lines 54-77: *out_format and *out_use_flags
gbm_mesa_resolve_format_and_use_flags(format, use_flags) ==
    [format |-> IF format = "FLEX_IMPLEMENTATION_DEFINED"
                THEN (IF use_flags \cap BO_USE_CAMERA # {} THEN "NV12" ELSE "XBGR8888")
                ELSE IF format = "FLEX_YCbCr_420_888" THEN "NV12"
                ELSE IF format = "BGR565" THEN "RGB565"
                ELSE format,
     use_flags |-> use_flags]

\* The call on these arguments in program state st, which it leaves alone
Resolved(st, format, use_flags) ==
    Returns(st, [Result("resolve", 0, TRUE, 0) EXCEPT
                    !.req = [NoRequest EXCEPT !.format = format, !.use_flags = use_flags],
                    !.out = gbm_mesa_resolve_format_and_use_flags(format, use_flags)])

ResolveFormats ==
    {"FLEX_IMPLEMENTATION_DEFINED", "FLEX_YCbCr_420_888", "BGR565", "RGB565", "NV12",
     "XBGR8888", "R8", "BGR888"}

ResolveFlagSets == SUBSET {"CAMERA_READ", "CAMERA_WRITE", "SCANOUT", "SW_READ_OFTEN"}

Resolve ==
    \E format \in ResolveFormats, use_flags \in ResolveFlagSets :
        Becomes(Resolved(State, format, use_flags))

\* The host resolves what the last call gave it
ResolveAgain ==
    /\ last.op = "resolve"
    /\ Becomes(Resolved(State, last.out.format, last.out.use_flags))

NextResolve ==
    \/ Resolve
    \/ ResolveAgain

SpecResolve == Init /\ [][NextResolve]_vars

----------------------------------------------------------------------------
(* Two buffer records side by side: buffers allocated, their plane descriptors
   handed out, buffers imported from descriptors the caller holds. The caller keeps
   the descriptors it was handed. *)

TwoBoIds == 1..(MaxBos + 1)

MaxHeldFds == 2

InitTwo ==
    /\ fdtab = State0.fdtab
    /\ drv_priv = State0.drv_priv
    /\ sessions = State0.sessions
    /\ bos = [b \in TwoBoIds |-> EmptyBo]
    /\ vmas = [b \in TwoBoIds |-> EmptyVma]
    /\ gbm_bos = State0.gbm_bos
    /\ caller_fds = State0.caller_fds
    /\ nAllocs = State0.nAllocs
    /\ proc = State0.proc
    /\ last = State0.last
    /\ thr = State0.thr

TwoCreate ==
    \E b \in TwoBoIds, format \in {"NV12"} :
        /\ proc = "running"
        /\ ~bos[b].priv
        /\ nAllocs < MaxAllocs
        /\ Becomes(gbm_mesa_bo_create(State, b, 100, 2, format, {"SCANOUT"},
                                      GoodEnv.topo, GoodEnv.fault, TRUE, TRUE))

TwoGetPlaneFd ==
    \E b \in TwoBoIds, plane \in Planes :
        /\ proc = "running"
        /\ bos[b].priv
        /\ plane < bos[b].num_planes
        /\ Cardinality(caller_fds) < MaxHeldFds
        /\ Becomes(gbm_mesa_bo_get_plane_fd(State, b, plane))

TwoImport ==
    \E b \in TwoBoIds, shape \in ImportShapes :
        \E data_fds \in [0..(drv_num_planes_from_format(shape.format) - 1) -> caller_fds] :
            /\ proc = "running"
            /\ Becomes(gbm_mesa_bo_import(State, b, shape, data_fds, {},
                                          GoodEnv.topo, GoodEnv.fault, TRUE))

TwoDestroy ==
    \E b \in TwoBoIds :
        /\ proc = "running"
        /\ bos[b].priv
        /\ Becomes(gbm_mesa_bo_destroy(State, b))

NextTwo ==
    \/ TwoCreate
    \/ TwoGetPlaneFd
    \/ TwoImport
    \/ TwoDestroy

SpecTwo == InitTwo /\ [][NextTwo]_vars

----------------------------------------------------------------------------
(* Properties *)

\* The steps of a construction attempt at which it can fail
FailStages == {"no_node", "dlopen", "dlsym", "get_gbm_ops", "dev_create"}

\* The entry point that ran last asked for a session and construction failed
InitFailed == last.init \in FailStages

Count(log, what) == Cardinality({i \in 1..Len(log) : log[i] = what})

\* The open descriptors of device nodes (dma-bufs have inodes from 100 on)
DeviceFds == {f \in FdNums : fdtab[f] > 0 /\ fdtab[f] < 100}

\* The descriptors the live sessions own
SessionFds ==
    UNION {{sessions[s].gpu_node_fd, sessions[s].gbm_node_fd} :
             s \in {x \in SessionIds : sessions[x].st = "live"}}

PlaneFds(b) == {bos[b].fds[p] : p \in {x \in Planes : x < bos[b].num_planes}}

\* C1: once a session is cached, every entry point that asks for one gets that
\* session without a construction attempt, and the session's module load and
\* dev_create stay the only ones; a session that was constructed is cached.
C1_SessionCached ==
    [][(proc' = "running" /\ last'.init # "none") =>
          /\ last'.init \in {"built", "cached"} =>
                /\ drv_priv' # NULL
                /\ sessions'[drv_priv'].st = "live"
                /\ sessions'[drv_priv'].log = <<"dlopen", "dev_create">>
          /\ drv_priv # NULL =>
                /\ last'.init = "cached"
                /\ drv_priv' = drv_priv
                /\ sessions' = sessions]_vars

\* A second entry point has used the session the first one constructed
C1_Witness ==
    /\ last.op = "bo_create" /\ last.ret = 0 /\ last.init = "cached"
    /\ nAllocs = 2

\* C2: after a failed construction attempt nothing is cached, the module was
\* unloaded if and only if it was loaded, dev_destroy was not called, and no
\* descriptor of a device node is open but those of the live sessions.
C2_FailureUnwinds ==
    InitFailed =>
        /\ drv_priv = NULL
        /\ Count(last.log, "dev_destroy") = 0
        /\ Count(last.log, "dlclose") = Count(last.log, "dlopen")
        /\ DeviceFds = SessionFds

\* dev_create failed under bo_create, with the module loaded and two nodes open
C2_Witness ==
    /\ last.op = "bo_create" /\ last.returned
    /\ last.init = "dev_create"
    /\ last.log = <<"dlopen", "dev_create", "dlclose">>

\* C3: an entry point whose construction attempt failed returns a negative error
\* code and has made no backend call.
C3_FailureSurfaced ==
    InitFailed => last.returned /\ last.ret < 0 /\ last.calls = <<>>

\* C4: no buffer references a session that was destroyed, a mapping handle is freed
\* through a live session, and the cached session is not destroyed before
\* driver_close.
C4_SessionOutlivesBuffers ==
    /\ \A b \in BoIds :
          (bos[b].priv /\ bos[b].drv # NULL) => sessions[bos[b].drv].st = "live"
    /\ drv_priv # NULL => sessions[drv_priv].st = "live"
    /\ \A i \in 1..Len(last.calls) :
          last.calls[i].fn = "free" => last.calls[i].arg.through = "live"

\* driver_close has run while a buffer with a mapping handle references the session
C4_Witness ==
    /\ last.op = "driver_close" /\ drv_priv = NULL
    /\ \E b \in BoIds :
          bos[b].priv /\ bos[b].gbm_bo # NULL /\ sessions[bos[b].drv].st = "live"

\* C5: a session that is referenced is alive and was not torn down; a session that
\* is not referenced any more was torn down once, dev_destroy first and dlclose
\* second, and its descriptors are closed.
C5_DestroyedOnce ==
    \A s \in SessionIds :
        /\ sessions[s].st \in {"unborn", "live", "destroyed"}
        /\ sessions[s].st = "unborn" => sessions[s].log = <<>>
        /\ sessions[s].st = "live" =>
              /\ sessions[s].log = <<"dlopen", "dev_create">>
              /\ UseCount(State, s) > 0
        /\ sessions[s].st = "destroyed" =>
              /\ sessions[s].log = <<"dlopen", "dev_create", "dev_destroy", "dlclose">>
              /\ UseCount(State, s) = 0

\* The last buffer went after driver_close and took the session with it, and a
\* second session has been constructed and torn down since
C5_Witness ==
    /\ \A s \in SessionIds : sessions[s].st = "destroyed"
    /\ last.op = "bo_destroy"

\* C6: after a successful bo_create the plane slots of the record hold pairwise
\* distinct descriptors, and bo_destroy closes no number that is not open.
C6_DistinctPlaneFds ==
    /\ (last.op = "bo_create" /\ last.ret = 0) =>
          \A p, q \in Planes :
              (p < q /\ q < bos[last.bo].num_planes) =>
                  bos[last.bo].fds[p] # bos[last.bo].fds[q]
    /\ last.op = "bo_destroy" => last.ebadf = 0

\* C7: bo_import on a populated record returns -EINVAL without asking for a
\* session, and changes neither the record nor the descriptor table nor the
\* sessions nor the live mapping handles.
C7_ImportRejected ==
    [][\A b \in BoIds :
          (bos[b].priv /\ last'.op = "bo_import" /\ last'.bo = b) =>
              /\ last'.returned /\ last'.ret = -EINVAL
              /\ last'.init = "none" /\ last'.calls = <<>>
              /\ bos' = bos /\ fdtab' = fdtab /\ gbm_bos' = gbm_bos
              /\ sessions' = sessions /\ drv_priv' = drv_priv]_vars

\* bo_import was refused on a record that holds a mapping handle
C7_Witness ==
    /\ last.op = "bo_import" /\ last.ret = -EINVAL
    /\ bos[last.bo].priv /\ bos[last.bo].gbm_bo # NULL

\* C8: every descriptor the caller owns is open, every plane descriptor of a
\* buffer is open, and no plane descriptor is one the caller owns.
C8_DescriptorsDuplicated ==
    /\ \A f \in caller_fds : IsOpen(fdtab, f)
    /\ \A b \in BoIds :
          bos[b].priv =>
              \A f \in PlaneFds(b) : IsOpen(fdtab, f) /\ f \notin caller_fds

\* The caller has closed the descriptor it had imported, and the buffer lives on
C8_Witness ==
    /\ last.op = "close" /\ last.ret = 0
    /\ \E b \in BoIds : bos[b].priv /\ bos[b].handles[0] = 200

\* C9: the mapping handle of a record does not change while the record is
\* populated, a record gets one only from bo_import's call of the backend's
\* import, and bo_map returns only on a record that has one.
C9_HandleSetOnce ==
    [][\A b \in BoIds :
          /\ (bos[b].priv /\ bos'[b].priv) => bos'[b].gbm_bo = bos[b].gbm_bo
          /\ (bos'[b].gbm_bo # NULL /\ bos[b].gbm_bo = NULL) =>
                /\ last'.op = "bo_import"
                /\ \E i \in 1..Len(last'.calls) : last'.calls[i].fn = "import"
          /\ (last'.op = "bo_map" /\ last'.bo = b /\ last'.returned) =>
                bos[b].gbm_bo # NULL]_vars

\* bo_map on a buffer without a mapping handle ended at the assertion
C9_Witness ==
    /\ proc = "SIGABRT" /\ last.op = "bo_map" /\ last.init = "cached"

\* The calls of wrapper->alloc among the calls the entry point made
IsAlloc(c) == c.fn = "alloc"

Allocs == SelectSeq(last.calls, IsAlloc)

CameraAsked == last.req.use_flags \cap BO_USE_CAMERA # {}

\* C11: a bo_create that got a session calls alloc once or twice; a second time
\* exactly when the first call failed and no camera usage was asked, with the first
\* call's arguments but for scanout intent cleared; with camera usage the one call
\* has scanout intent set; bo_create returns what the last call answered.
C11_AllocRetry ==
    (last.op = "bo_create" /\ last.init \in {"built", "cached"}) =>
        /\ Len(Allocs) \in {1, 2}
        /\ Len(Allocs) = 2 <=> (Allocs[1].ret # 0 /\ ~CameraAsked)
        /\ Len(Allocs) = 2 =>
              /\ Allocs[2].arg = [Allocs[1].arg EXCEPT !.use_scanout = FALSE]
              /\ Allocs[1].arg.use_scanout = ("SCANOUT" \in last.req.use_flags)
        /\ CameraAsked => Allocs[1].arg.use_scanout
        /\ last.ret = Allocs[Len(Allocs)].ret

\* The retry happened and failed too; with camera usage the one attempt failed
C11_Witness ==
    /\ last.op = "bo_create" /\ last.ret # 0
    /\ Len(Allocs) = 2 /\ "SCANOUT" \in last.req.use_flags

C11_WitnessCamera ==
    /\ last.op = "bo_create" /\ last.ret # 0
    /\ Len(Allocs) = 1 /\ CameraAsked /\ "SCANOUT" \notin last.req.use_flags

\* C12: a bo_create that fails returns non-zero and leaves the record as the host
\* made it: no private state, no plane descriptor, no plane key, and the layout
\* metadata (planes, sizes) as before the call; no buffer is in the slot.
C12_FailureLeavesNothing ==
    (last.op = "bo_create" /\ last.returned /\ last.ret # 0) =>
        /\ ~bos[last.bo].priv
        /\ last.rec = drv_bo_new(last.req.width, last.req.height, last.req.format)

\* The byte size S of the request's layout at one byte per element: rows of width
\* bytes (the width rounded up to 32 with camera usage), the sum over the planes
\* rounded up to 4096 with camera usage
SpoofedSize ==
    ALIGN(SumSizes(last.req.format,
                   IF CameraAsked THEN ALIGN(last.req.width, 32) ELSE last.req.width,
                   last.req.height, drv_num_planes_from_format(last.req.format)),
          IF CameraAsked THEN 4096 ELSE 1)

Spoofed ==
    /\ last.op = "bo_create" /\ last.returned /\ last.ret = 0
    /\ ~get_gbm_format(last.req.format)

\* C13: a successful bo_create of a format the backend lacks gives a buffer whose
\* total size is S; what the backend was asked for is R8, 4096 wide and
\* ceil(S/4096) high, linear, which covers at least S bytes.
C13_SpoofedRoundTrip ==
    Spoofed =>
        /\ bos[last.bo].total_size = SpoofedSize
        /\ bos[last.bo].num_planes = drv_num_planes_from_format(last.req.format)
        /\ bos[last.bo].format = last.req.format
        /\ \A i \in 1..Len(Allocs) :
              /\ Allocs[i].arg.drm_format = "R8"
              /\ Allocs[i].arg.width = 4096
              /\ Allocs[i].arg.height = DIV_ROUND_UP(SpoofedSize, 4096)
              /\ Allocs[i].arg.force_linear
              /\ Allocs[i].arg.width * Allocs[i].arg.height >= SpoofedSize

\* A spoofed buffer of 10000 bytes got from a 4096 x 3 request
C13_Witness ==
    /\ Spoofed
    /\ bos[last.bo].total_size = 10000
    /\ Allocs[1].arg.height = 3

\* bo_create succeeded with a request the reshape of lines 398-407 applied to
Reshaped ==
    /\ last.op = "bo_create" /\ last.returned /\ last.ret = 0
    /\ \/ ~get_gbm_format(last.req.format)
       \/ last.req.format = "R8" /\ last.req.height = 1

\* The layout of the request as asked: the stride the backend gives rows of the
\* requested width (the width rounded up to 32 with camera usage), the requested
\* height
LogicalSize ==
    IF ~get_gbm_format(last.req.format) THEN SpoofedSize
    ELSE SumSizes(last.req.format,
                  ALIGN((IF CameraAsked THEN ALIGN(last.req.width, 32)
                         ELSE last.req.width) * drv_bytes_per_pixel(last.req.format), 64),
                  last.req.height, drv_num_planes_from_format(last.req.format))

\* C16: whenever the reshape applies, by spoofing or by a direct R8 request of
\* height 1, the buffer's total size is the one of the logical layout and does not
\* depend on the 4096 width or the ceil(width/4096) height sent to the backend.
C16_LayoutNotFromReshape ==
    Reshaped => bos[last.bo].total_size = LogicalSize

PlanesOf(bo) == {p \in Planes : p < bo.num_planes}

\* C14: every plane key of a buffer is the inode of the plane's descriptor; a
\* descriptor bo_get_plane_fd hands out has the inode that is the plane's key; a
\* buffer imported from descriptors has for each plane the inode of the descriptor
\* given for it, so imported from descriptors duplicated from another buffer it has
\* that buffer's keys; a newly allocated buffer shares no key with a buffer that
\* exists beside it.
C14_KeysAreInodes ==
    [][\A b \in TwoBoIds :
        /\ bos'[b].priv =>
              \A p \in PlanesOf(bos'[b]) :
                  /\ IsOpen(fdtab', bos'[b].fds[p])
                  /\ bos'[b].handles[p] = Inode(fdtab', bos'[b].fds[p])
        /\ (last'.op = "bo_get_plane_fd" /\ last'.bo = b /\ last'.ret >= 0) =>
              /\ last'.ret \in caller_fds' \ caller_fds
              /\ \E p \in PlanesOf(bos[b]) : Inode(fdtab', last'.ret) = bos[b].handles[p]
        /\ (last'.op = "bo_import" /\ last'.bo = b /\ last'.ret = 0) =>
              \A p \in PlanesOf(bos'[b]) :
                  bos'[b].handles[p] = Inode(fdtab, last'.fds[p + 1])
        /\ (last'.op = "bo_create" /\ last'.bo = b /\ last'.ret = 0) =>
              \A a \in TwoBoIds \ {b} : bos[a].priv =>
                  \A p \in PlanesOf(bos'[b]), q \in PlanesOf(bos[a]) :
                      bos'[b].handles[p] # bos[a].handles[q]
      ]_vars

\* Two allocated buffers with different keys; a buffer imported beside the
\* allocated one it was duplicated from, with the same keys
C14_WitnessDistinct ==
    /\ bos[1].priv /\ bos[2].priv
    /\ bos[1].drv # NULL /\ bos[2].drv # NULL
    /\ bos[1].handles[0] # bos[2].handles[0]

C14_Witness ==
    /\ last.op = "bo_import" /\ last.ret = 0
    /\ bos[1].priv /\ bos[2].priv
    /\ bos[1].drv # NULL /\ bos[2].drv = NULL
    /\ bos[1].num_planes = 2
    /\ \A p \in PlanesOf(bos[2]) : bos[2].handles[p] = bos[1].handles[p]

\* C15: format resolution gives NV12 for the flexible implementation-defined
\* format with camera read or write usage and XBGR8888 without, NV12 for the
\* flexible YCbCr 4:2:0 format, RGB565 for BGR565, any other format as it is, the
\* usage flags as they are; resolving its result gives the result again; it
\* touches nothing of the program state.
C15_ResolvePure ==
    last.op = "resolve" =>
        /\ last.req.format = "FLEX_IMPLEMENTATION_DEFINED" =>
              last.out.format = (IF {"CAMERA_READ", "CAMERA_WRITE"} \cap last.req.use_flags # {}
                                 THEN "NV12" ELSE "XBGR8888")
        /\ last.req.format = "FLEX_YCbCr_420_888" => last.out.format = "NV12"
        /\ last.req.format = "BGR565" => last.out.format = "RGB565"
        /\ last.req.format \notin {"FLEX_IMPLEMENTATION_DEFINED", "FLEX_YCbCr_420_888",
                                   "BGR565"} => last.out.format = last.req.format
        /\ last.out.use_flags = last.req.use_flags
        /\ gbm_mesa_resolve_format_and_use_flags(last.out.format, last.out.use_flags)
             = last.out
        /\ [State EXCEPT !.last = State0.last] = State0

\* The flexible implementation-defined format resolved with camera usage
C15_Witness ==
    /\ last.op = "resolve"
    /\ last.req.format = "FLEX_IMPLEMENTATION_DEFINED"
    /\ "CAMERA_WRITE" \in last.req.use_flags
    /\ last.out.format = "NV12"

\* C17: bo_map sets the mapping record's length to the buffer's total size and,
\* when the backend maps, the record's context; bo_unmap returns only on a buffer
\* with a mapping handle and a record with a context, having called the backend's
\* unmap once and cleared the context; a record's context appears only by a
\* successful bo_map and goes only by bo_unmap (or with the buffer or the process).
C17_MapUnmapProtocol ==
    [][\A b \in BoIds :
          /\ (last'.op = "bo_map" /\ last'.bo = b /\ last'.returned) =>
                /\ vmas'[b].length = bos[b].total_size
                /\ vmas'[b].priv = (vmas[b].priv \/ last'.ret = 1)
                /\ \E i \in 1..Len(last'.calls) : last'.calls[i].fn = "map"
          /\ (last'.op = "bo_unmap" /\ last'.bo = b /\ last'.returned) =>
                /\ bos[b].gbm_bo # NULL
                /\ vmas[b].priv
                /\ last'.calls = <<Call("unmap", bos[b].gbm_bo)>>
                /\ ~vmas'[b].priv
                /\ last'.ret = 0
          /\ (last'.op = "bo_unmap" /\ last'.bo = b /\ ~vmas[b].priv) =>
                proc' # "running"
          /\ (vmas'[b].priv /\ ~vmas[b].priv) =>
                last'.op = "bo_map" /\ last'.bo = b /\ last'.ret = 1
          /\ (~vmas'[b].priv /\ vmas[b].priv) =>
                \/ last'.op = "bo_unmap" /\ last'.bo = b
                \/ last'.op = "bo_destroy" /\ last'.bo = b
                \/ proc' # "running"]_vars

\* bo_unmap returned after a map; bo_unmap on a record never mapped
C17_Witness ==
    /\ last.op = "bo_unmap" /\ last.returned /\ last.ret = 0
    /\ \E b \in BoIds : last.bo = b /\ bos[b].gbm_bo # NULL /\ ~vmas[b].priv

C17_WitnessUnmapped ==
    /\ last.op = "bo_unmap" /\ ~last.returned /\ last.init = "cached"
    /\ proc = "SIGABRT"

\* C18: when the GPU has a separate display controller, the caller is not in
\* mapping-only mode and no display-capable card node is found, the session is
\* still constructed, on the GPU node.
C18_MissingKmsNotFatal ==
    last.kms_missing => last.init = "built"

\* The places in the glob result of the nodes that can be opened
Usable(nodes) == {i \in DOMAIN nodes : nodes[i].openable}

OpenFds == {fd \in FdNums : IsOpen(fdtab, fd)}

\* C19: the GPU descriptor is_separate_dc_gpu gives is of the first render node of
\* the glob result that can be opened, the verdict is whether that node's driver
\* name is in separate_dc_gpu_list, and it is the one descriptor left open; with no
\* usable node there is none and the verdict is false.
C19_FirstUsableNode ==
    last.op = "is_separate_dc_gpu" =>
        IF Usable(last.calls[1].arg) = {}
        THEN last.fds[1] = NoFd /\ last.ret = 0 /\ OpenFds = {}
        ELSE /\ Inode(fdtab, last.fds[1]) = last.calls[1].arg[Min(Usable(last.calls[1].arg))].ino
             /\ (last.ret = 1) = (last.calls[1].arg[Min(Usable(last.calls[1].arg))].name
                                   \in separate_dc_gpu_list)
             /\ OpenFds = {last.fds[1]}

Constructed == {s \in SessionIds : sessions[s].st = "live"}

\* C20: drv->priv holds the session stored last; when two sessions were stored the
\* calls were not serialized, both were constructed whole (each with its own
\* module load and dev_create) and the earlier one is still alive, cut off from
\* the driver context; with the calls serialized at most one session is ever
\* constructed and stored.
C20_CheckThenCreate ==
    /\ Len(thr.stores) <= 2
    /\ Len(thr.stores) > 0 => drv_priv = thr.stores[Len(thr.stores)]
    /\ Len(thr.stores) = 2 =>
          /\ ~thr.serialized
          /\ thr.stores[1] # thr.stores[2]
          /\ \A i \in 1..2 :
                /\ sessions[thr.stores[i]].st = "live"
                /\ Count(sessions[thr.stores[i]].log, "dlopen") = 1
                /\ Count(sessions[thr.stores[i]].log, "dev_create") = 1
    /\ thr.serialized => Cardinality(Constructed) <= 1 /\ Len(thr.stores) <= 1

\* Both threads found no session, both constructed one, and the second store
\* replaced the first
C20_Witness ==
    /\ ~thr.serialized
    /\ Len(thr.stores) = 2
    /\ Cardinality(Constructed) = 2
    /\ drv_priv = thr.stores[2] /\ drv_priv # thr.stores[1]
    /\ \A t \in Threads : thr.pc[t] = "idle"

\* With the calls serialized the second thread found the session of the first
C20_WitnessSerialized ==
    /\ thr.serialized
    /\ Len(thr.stores) = 1
    /\ \E t \in Threads : thr.pc[t] = "return" /\ thr.mine[t] = drv_priv
                             /\ last.op = "get_or_init_driver" /\ last.ret = drv_priv

\* C10: when bo_import has called the backend's import and returned 0, the record
\* holds a mapping handle.
C10_ImportGivesHandle ==
    (/\ last.op = "bo_import" /\ last.returned /\ last.ret = 0
     /\ \E i \in 1..Len(last.calls) : last.calls[i].fn = "import") =>
        bos[last.bo].gbm_bo # NULL

====
